---- MODULE Spec2Model ----
(***************************************************************************)
(* Invoice processing pipeline: LlamaParseAgent (extraction),              *)
(* DataValidationAgent (validation), InvoiceProcessingWorkflow             *)
(* (orchestration), the POST /process-invoice/ handler of app.py,          *)
(* ExcelWriterAgent (export), and LlamaExtractAgent and                    *)
(* DataExtractionAgent as stages on a shared Context.                      *)
(*                                                                         *)
(* Spec is the workflow object with its callers, ValidateSpec applies      *)
(* _validate_data to bounded inputs, ExportSpec runs invocations of        *)
(* ExcelWriterAgent.process on one event loop, and StagesSpec hands one    *)
(* Context from agent to agent.                                            *)
(*                                                                         *)
(* Python values are tagged records [kind, val].  A key that is not in a   *)
(* dict is the value Absent.  A str is the sequence of its characters.     *)
(* A number is held in hundredths (cents): 6.00 is Num(600), and a         *)
(* quantity of 2 is Num(200).                                              *)
(***************************************************************************)
EXTENDS Integers, Sequences, FiniteSets, TLC

\* ------------------------------------------------------------------ values

Absent == [kind |-> "absent", val |-> 0]
None == [kind |-> "none", val |-> 0]
Str(s) == [kind |-> "str", val |-> s]
Num(c) == [kind |-> "num", val |-> c]
List(xs) == [kind |-> "list", val |-> xs]
Dict(d) == [kind |-> "dict", val |-> d]

\* `k in d` for a dict held as a record over all the keys the code reads
Has(d, k) == d[k].kind # "absent"

\* `d[k] is None`
IsNone(v) == v.kind = "none"

\* Python truthiness, `if v:`
Truthy(v) ==
    CASE v.kind = "absent" -> FALSE
      [] v.kind = "none" -> FALSE
      [] v.kind = "str" -> Len(v.val) > 0
      [] v.kind = "num" -> v.val # 0
      [] v.kind = "list" -> Len(v.val) > 0
      [] v.kind = "dict" -> \E k \in DOMAIN v.val : Has(v.val, k)

\* ------------------------------------------------------- text conversions

Digits == <<"0", "1", "2", "3", "4", "5", "6", "7", "8", "9">>

IsDigit(c) == \E i \in 1..10 : Digits[i] = c

DigitVal(c) == (CHOOSE i \in 1..10 : Digits[i] = c) - 1

AllDigits(s) == \A i \in 1..Len(s) : IsDigit(s[i])

RECURSIVE NatOf(_)
NatOf(s) == IF s = <<>> THEN 0 ELSE 10 * NatOf(SubSeq(s, 1, Len(s) - 1)) + DigitVal(s[Len(s)])

\* positions of the character c in s
Positions(s, c) == {i \in 1..Len(s) : s[i] = c}

IsLeap(y) == (y % 4 = 0 /\ y % 100 # 0) \/ y % 400 = 0

DaysInMonth(y, m) ==
    IF m = 2 THEN (IF IsLeap(y) THEN 29 ELSE 28)
    ELSE IF m \in {4, 6, 9, 11} THEN 30 ELSE 31

\* datetime.strptime(s, '%Y-%m-%d') returns (TRUE) or raises ValueError (FALSE), s a str:
\* four digits of year, "-", a month 1..12 of one or two digits, "-", a day of
\* one or two digits, nothing left over, and a date the calendar has.
strptime_ok(s) ==
    LET dash == Positions(s, "-") IN
    /\ Cardinality(dash) = 2
    /\ LET p1 == CHOOSE i \in dash : \A j \in dash : i <= j
           p2 == CHOOSE i \in dash : \A j \in dash : j <= i
           Y == SubSeq(s, 1, p1 - 1)
           m == SubSeq(s, p1 + 1, p2 - 1)
           d == SubSeq(s, p2 + 1, Len(s))
       IN  /\ Len(Y) = 4 /\ AllDigits(Y)
           /\ Len(m) \in {1, 2} /\ AllDigits(m)
           /\ Len(d) \in {1, 2} /\ AllDigits(d)
           /\ NatOf(Y) >= 1
           /\ NatOf(m) \in 1..12
           /\ NatOf(d) >= 1
           /\ NatOf(d) <= DaysInMonth(NatOf(Y), NatOf(m))

\* float(s) of a str accepts here: an optional "-", digits, and optionally "."
\* with at most two digits after it (any other text raises ValueError)
DecimalBody(s) == IF Len(s) > 0 /\ s[1] = "-" THEN SubSeq(s, 2, Len(s)) ELSE s

IsDecimal(s) ==
    LET b == DecimalBody(s)
        dot == Positions(b, ".")
    IN  \/ /\ dot = {} /\ Len(b) > 0 /\ AllDigits(b)
        \/ /\ Cardinality(dot) = 1
           /\ LET p == CHOOSE i \in dot : TRUE
                  ip == SubSeq(b, 1, p - 1)
                  fp == SubSeq(b, p + 1, Len(b))
              IN  /\ AllDigits(ip) /\ AllDigits(fp)
                  /\ Len(ip) + Len(fp) > 0
                  /\ Len(fp) <= 2

DecimalCents(s) ==
    LET b == DecimalBody(s)
        dot == Positions(b, ".")
        p == IF dot = {} THEN Len(b) + 1 ELSE CHOOSE i \in dot : TRUE
        ip == SubSeq(b, 1, p - 1)
        fp == SubSeq(b, p + 1, Len(b))
        frac == IF Len(fp) = 0 THEN 0
                ELSE IF Len(fp) = 1 THEN 10 * NatOf(fp) ELSE NatOf(fp)
        mag == 100 * NatOf(ip) + frac
    IN  IF Len(s) > 0 /\ s[1] = "-" THEN 0 - mag ELSE mag

\* float(v): a number, or the exception float() raises
float(v) ==
    CASE v.kind = "num" -> [err |-> "", val |-> v.val]
      [] v.kind = "str" ->
           IF IsDecimal(v.val) THEN [err |-> "", val |-> DecimalCents(v.val)]
           ELSE [err |-> "ValueError", val |-> 0]
      [] OTHER -> [err |-> "TypeError", val |-> 0]

\* round(x, 2) of a product of two amounts held in hundredths (x in 1/10000)
round2(x) == (x + 50) \div 100

Abs(x) == IF x < 0 THEN 0 - x ELSE x

\* The amounts a (in cents, below 128) for which the binary64 values of a/100
\* and (a+1)/100 differ by no more than the binary64 value of 0.01.
OneCentGapWithinTolerance ==
    {0, 1, 2, 5, 7, 8, 10, 11, 14, 17, 20, 23, 28, 34, 40, 46, 56, 68, 81, 93, 112}

\* abs(calculated_total - total_price) > 0.01, evaluated in binary64 on amounts
\* of whole cents: equal amounts never exceed it, amounts two or more cents apart
\* always do, amounts one cent apart do unless the pair is in the table.
ExceedsTolerance(calculated_total, total_price) ==
    LET gap == Abs(calculated_total - total_price)
        low == IF calculated_total < total_price THEN calculated_total ELSE total_price
    IN  CASE gap = 0 -> FALSE
          [] gap >= 2 -> TRUE
          [] gap = 1 /\ low < 128 -> low \notin OneCentGapWithinTolerance

\* ------------------------------------------------- DataValidationAgent

required_fields == <<"invoice_number", "date", "vendor_name", "total_amount", "line_items">>

item_required_fields == <<"description", "quantity", "unit_price", "total_price">>

\* a feedback string: the sentence (rule), the line item it names (0: none), the
\* field names it lists and the values it prints
Msg(rule, item, names, values) ==
    [rule |-> rule, item |-> item, names |-> names, values |-> values]

EmptyStr == Msg("", 0, <<>>, <<>>)

Return(isValid, feedback) == [raised |-> "", isValid |-> isValid, feedback |-> feedback]

Raise(exc) == [raised |-> exc, isValid |-> FALSE, feedback |-> EmptyStr]

\* the comprehension without its `is None` test
missing_of_absent_only(fields, d) == SelectSeq(fields, LAMBDA f : ~Has(d, f))

\* [f for f in fields if f not in d or d[f] is None]
missing_of(fields, d) == SelectSeq(fields, LAMBDA f : ~Has(d, f) \/ IsNone(d[f]))

missing_fields(data) == missing_of(required_fields, data)

\* the date block: continue (Return(TRUE, "")), return a failure, or raise
DateCheck(data) ==
    IF Has(data, "date") /\ Truthy(data.date)
    THEN IF data.date.kind # "str" THEN Raise("TypeError")
         ELSE IF strptime_ok(data.date.val) THEN Return(TRUE, EmptyStr)
         ELSE Return(FALSE, Msg("Invalid date format. Expected YYYY-MM-DD, got", 0,
                                <<>>, <<data.date>>))
    ELSE Return(TRUE, EmptyStr)

\* the total amount block
TotalCheck(data) ==
    IF Has(data, "total_amount") /\ ~IsNone(data.total_amount)
    THEN LET total == float(data.total_amount) IN
         IF total.err # ""
         THEN Return(FALSE, Msg("Invalid total amount:", 0, <<>>, <<data.total_amount>>))
         ELSE IF total.val <= 0
              THEN Return(FALSE, Msg("Total amount must be greater than 0", 0, <<>>, <<>>))
              ELSE Return(TRUE, EmptyStr)
    ELSE Return(TRUE, EmptyStr)

\* quantity <= 0 or unit_price < 0 or total_price < 0
InvalidNumbers(quantity, unit_price, total_price) ==
    quantity <= 0 \/ unit_price < 0 \/ total_price < 0

\* the try block of the loop body, given what float() made of the three numbers
ItemNumbers(item, i, quantity, unit_price, total_price) ==
    IF quantity.err # ""
    THEN Return(FALSE, Msg("Line item has invalid numeric values:", i, <<>>, <<item.val.quantity>>))
    ELSE IF unit_price.err # ""
    THEN Return(FALSE, Msg("Line item has invalid numeric values:", i, <<>>, <<item.val.unit_price>>))
    ELSE IF total_price.err # ""
    THEN Return(FALSE, Msg("Line item has invalid numeric values:", i, <<>>, <<item.val.total_price>>))
    ELSE IF InvalidNumbers(quantity.val, unit_price.val, total_price.val)
    THEN Return(FALSE, Msg("Line item has invalid numeric values", i, <<>>, <<>>))
    ELSE IF ExceedsTolerance(round2(quantity.val * unit_price.val), total_price.val)
    THEN Return(FALSE, Msg("Line item: quantity * unit_price does not match total_price", i,
                           <<>>, <<Num(round2(quantity.val * unit_price.val)), Num(total_price.val)>>))
    ELSE Return(TRUE, EmptyStr)

\* the body of the loop over line items, for item number i (from 1)
ItemCheck(item, i) ==
    IF item.kind # "dict"
    THEN Return(FALSE, Msg("Line item is not a valid object", i, <<>>, <<>>))
    ELSE IF missing_of(item_required_fields, item.val) # <<>>
    THEN Return(FALSE, Msg("Line item missing required fields:", i,
                           missing_of(item_required_fields, item.val), <<>>))
    ELSE ItemNumbers(item, i, float(item.val.quantity), float(item.val.unit_price),
                     float(item.val.total_price))

\* for i, item in enumerate(data['line_items'], 1): the first item that returns
RECURSIVE ItemsFrom(_, _)
ItemsFrom(items, i) ==
    IF i > Len(items) THEN Return(TRUE, EmptyStr)
    ELSE LET r == ItemCheck(items[i], i) IN
         IF r.isValid THEN ItemsFrom(items, i + 1) ELSE r

\* the line items block
LineItemsCheck(data) ==
    IF Has(data, "line_items") /\ data.line_items.kind = "list"
    THEN ItemsFrom(data.line_items.val, 1)
    ELSE Return(TRUE, EmptyStr)

\* the first of the blocks' outcomes, in the order the code runs them, that
\* returns a failure or raises; (True, "") when every block falls through
RECURSIVE FirstReturn(_)
FirstReturn(blocks) ==
    IF blocks = <<>> THEN Return(TRUE, EmptyStr)
    ELSE IF Head(blocks).raised # "" \/ ~Head(blocks).isValid THEN Head(blocks)
    ELSE FirstReturn(Tail(blocks))

\* _validate_data with the total amount block moved before the date block
_validate_data_total_first(data) ==
    IF missing_fields(data) # <<>>
    THEN Return(FALSE, Msg("Missing required fields:", 0, missing_fields(data), <<>>))
    ELSE FirstReturn(<<TotalCheck(data), DateCheck(data), LineItemsCheck(data)>>)

\* DataValidationAgent._validate_data: (is_valid, feedback), or the exception raised
_validate_data(data) ==
    IF missing_fields(data) # <<>>
    THEN Return(FALSE, Msg("Missing required fields:", 0, missing_fields(data), <<>>))
    ELSE FirstReturn(<<DateCheck(data), TotalCheck(data), LineItemsCheck(data)>>)

\* ----------------------------------------------------------- Context

\* Context(invoice_path=...): the dataclass fields default to None; job_status,
\* extracted_text and validation_feedback are attributes only once a stage sets them
Context(invoice_path) ==
    [invoice_path |-> invoice_path, job_id |-> None, status |-> None,
     structured_data |-> None, markdown_docs |-> None, text_docs |-> None,
     job_status |-> Absent, extracted_text |-> Absent, validation_feedback |-> Absent]

NoContext == Context("")

\* a feedback string held in a context or an envelope
Feedback(m) == [kind |-> "feedback", val |-> m]

\* an exception: its type and what str(e) shows
Exc(type, text) == [type |-> type, text |-> text]

NoExc == Exc("", "")

\* ------------------------------------------------------ LlamaParseAgent

\* what parser.aparse and the result's accessors do for one call: raise
\* (LlamaCloudError or another exception), or give a job id, a status and the
\* structured data
NoOutcome == [exc |-> "", job_id |-> None, status |-> None, structured_data |-> None]

\* result.get(key): the value, or None for a key the dict does not have
get(result, key) == IF key \in DOMAIN result THEN result[key] ELSE None

\* a raise of LlamaParseError, a name the module never defines or imports
RaiseLlamaParseError == Exc("NameError", "name 'LlamaParseError' is not defined")

\* _process_with_parser(file_path, use_ocr) when the provider does `outcome`:
\* the dict returned (never None), or the exception raised
_process_with_parser(use_ocr, outcome) ==
    IF outcome.exc # ""
    THEN [raised |-> RaiseLlamaParseError, result |-> None, use_ocr |-> use_ocr]
    ELSE [raised |-> NoExc,
          result |-> Dict([job_id |-> outcome.job_id,
                           status |-> outcome.status,
                           structured_data |-> outcome.structured_data,
                           markdown_docs |-> List(<<>>),
                           text_docs |-> List(<<>>)]),
          use_ocr |-> use_ocr]

\* json.dumps(data, indent=2) if data is a dict, else str(data)
extracted_text_of(data) ==
    IF data.kind = "dict" THEN [kind |-> "json", val |-> data]
    ELSE IF data.kind = "none" THEN Str(<<"N", "o", "n", "e">>)
    ELSE [kind |-> "repr", val |-> data]

\* the assignments that store the result in the context
StoreResult(context, result) ==
    [context EXCEPT !.job_id = get(result.val, "job_id"),
                    !.job_status = get(result.val, "status"),
                    !.structured_data = get(result.val, "data"),
                    !.extracted_text = extracted_text_of(get(result.val, "data"))]

\* result is None
IsNoResult(r) == r.result.kind = "none"

\* LlamaParseAgent.process (the definition in force, the last one of the class),
\* with the file present or not, and the provider's outcome for the standard call
\* and for an OCR call: the context returned or the exception raised, the
\* provider calls made, the dict the stage kept, and parser.use_ocr afterwards
process(context, exists, std, ocr) ==
    IF ~exists
    THEN [raised |-> Exc("FileNotFoundError", "Invoice file not found"),
          context |-> context, attempts |-> <<>>, result |-> None]
    ELSE LET r1 == _process_with_parser(FALSE, std) IN
    IF r1.raised # NoExc
    THEN [raised |-> RaiseLlamaParseError, context |-> context,
          attempts |-> <<[use_ocr |-> FALSE, outcome |-> std]>>, result |-> None]
    ELSE IF IsNoResult(r1)
    THEN LET r2 == _process_with_parser(TRUE, ocr)
             both == <<[use_ocr |-> FALSE, outcome |-> std], [use_ocr |-> TRUE, outcome |-> ocr]>>
         IN  IF r2.raised # NoExc \/ IsNoResult(r2)
             THEN [raised |-> RaiseLlamaParseError, context |-> context,
                   attempts |-> both, result |-> None]
             ELSE [raised |-> NoExc, context |-> StoreResult(context, r2.result),
                   attempts |-> both, result |-> r2.result]
    ELSE [raised |-> NoExc, context |-> StoreResult(context, r1.result),
          attempts |-> <<[use_ocr |-> FALSE, outcome |-> std]>>, result |-> r1.result]

\* ------------------------------------------ DataValidationAgent.process

\* DataValidationAgent.process after _validate_data gave v
validation_outcome(context, v) ==
    IF v.raised # ""
    THEN [raised |-> Exc(v.raised, "strptime() argument 1 must be str"),
          isValid |-> FALSE, context |-> context]
    ELSE IF ~v.isValid
    THEN [raised |-> NoExc, isValid |-> FALSE,
          context |-> [context EXCEPT !.validation_feedback = Feedback(v.feedback)]]
    ELSE [raised |-> NoExc, isValid |-> TRUE,
          context |-> [context EXCEPT !.validation_feedback = None]]

\* DataValidationAgent.process: (is_valid, context), or the exception raised
validation_process(context) ==
    IF ~Truthy(context.structured_data)
    THEN [raised |-> Exc("ValueError", "No structured data found in context"),
          isValid |-> FALSE, context |-> context]
    ELSE validation_outcome(context, _validate_data(context.structured_data.val))

\* ------------------------------- LlamaExtractAgent, DataExtractionAgent

\* `if not context.extracted_text`: the text json.dumps or str() gives is never
\* empty, an OCR text may be
TextTruthy(t) == IF t.kind = "str" THEN Len(t.val) > 0 ELSE t.kind \notin {"absent", "none"}

\* the result of a stage handed a context: the exception raised, or the context
StageRaise(e, context) == [raised |-> e, context |-> context]

StageReturn(context) == [raised |-> NoExc, context |-> context]

\* LlamaExtractAgent.process(context), with the file present or not and the
\* result of agent.extract: success and data
llama_extract_process(context, exists, result) ==
    IF ~exists
    THEN StageRaise(Exc("FileNotFoundError", "Invoice file not found"), context)
    ELSE IF ~result.success
    THEN StageRaise(Exc("ValueError", "Failed to extract data"), context)
    ELSE StageReturn([context EXCEPT !.structured_data = result.data,
                                     !.extracted_text = [kind |-> "repr", val |-> result.data]])

\* DataExtractionAgent.process(context), with what the LLM call gives: an
\* exception or the parsed JSON; extracted_text and validation_feedback are read
\* as attributes, which a Context has only once a stage has set them
data_extraction_process(context, llm) ==
    IF context.extracted_text.kind = "absent"
    THEN StageRaise(Exc("AttributeError", "'Context' object has no attribute 'extracted_text'"),
                    context)
    ELSE IF ~TextTruthy(context.extracted_text)
    THEN StageRaise(Exc("ValueError", "No extracted text found in context"), context)
    ELSE IF context.validation_feedback.kind = "absent"
    THEN StageRaise(Exc("AttributeError",
                        "'Context' object has no attribute 'validation_feedback'"), context)
    ELSE IF llm.exc # ""
    THEN StageRaise(Exc(llm.exc, "Error in _extract_invoice_data"), context)
    ELSE StageReturn([context EXCEPT !.structured_data = llm.data,
                                     !.validation_feedback = None])

\* ------------------------------------------- InvoiceProcessingWorkflow

\* the dict process_invoice returns; a key it does not carry is Absent
Envelope(status, message, invoice_path, error, details, extracted_data, validation_feedback) ==
    [status |-> status, message |-> message, invoice_path |-> invoice_path,
     error |-> error, details |-> details, extracted_data |-> extracted_data,
     validation_feedback |-> validation_feedback]

NoDetails == [key |-> "", value |-> FALSE]

NoEnvelope == Envelope("", "", "", NoExc, NoDetails, Absent, Absent)

EmptyDict == Dict([k \in {"invoice_number", "date", "vendor_name", "total_amount", "line_items"} |-> Absent])

\* the envelope of a path that does not exist
FileNotFoundEnvelope(invoice_path) ==
    Envelope("error", "", invoice_path, Exc("", "File not found"),
             [key |-> "file_exists", value |-> FALSE], Absent, Absent)

\* the envelope of an exception out of the extraction stage
ExtractionErrorEnvelope(invoice_path, e) ==
    Envelope("error", "", invoice_path, Exc(e.type, "Failed to extract data"),
             [key |-> "extraction_error", value |-> TRUE], Absent, Absent)

\* the envelope of a validation that returned
ResultEnvelope(invoice_path, is_valid, context) ==
    Envelope(IF is_valid THEN "success" ELSE "warning",
             IF is_valid THEN "Validation passed" ELSE "Validation failed",
             invoice_path, NoExc, NoDetails,
             IF Truthy(context.structured_data) THEN context.structured_data ELSE EmptyDict,
             IF context.validation_feedback.kind = "absent" THEN List(<<>>)
             ELSE context.validation_feedback)

\* an error envelope that lacks its details
ValidationErrorEnvelopeUntagged(invoice_path, e, context) ==
    Envelope("error", "", invoice_path, Exc(e.type, "Validation error"),
             NoDetails, context.structured_data, Absent)

\* the envelope of an exception out of the validation stage
ValidationErrorEnvelope(invoice_path, e, context) ==
    Envelope("error", "", invoice_path, Exc(e.type, "Validation error"),
             [key |-> "validation_error", value |-> TRUE], context.structured_data, Absent)

\* ------------------------------------------------------------------ app.py

allowed_extensions == {".pdf", ".jpg", ".jpeg", ".png"}

UPLOAD_DIR == "uploads"

OUTPUT_DIR == "output"

\* str.lower() on the suffixes the uploads have
lower(s) ==
    CASE s = ".PDF" -> ".pdf"
      [] s = ".PNG" -> ".png"
      [] OTHER -> s

\* os.path.join(directory, name)
join(directory, name) == directory \o "/" \o name

\* get_unique_filename(directory, filename), with the first characters of the uuid4
get_unique_filename(directory, filename, unique_id) ==
    join(directory, filename.stem \o "_" \o unique_id \o filename.suffix)

\* the parameters of InvoiceProcessingWorkflow.process_invoice after self
process_invoice_params == <<"invoice_path">>

\* a call with positional arguments: they bind to the parameters, or TypeError
Bind(params, args) ==
    IF Len(args) = Len(params) THEN NoExc
    ELSE Exc("TypeError", "process_invoice() takes 2 positional arguments but 3 were given")

\* what the client receives: the HTTP status code and the JSON body's keys
Response(status_code, status, data, excel_file, detail) ==
    [status_code |-> status_code, status |-> status, data |-> data,
     excel_file |-> excel_file, detail |-> detail]

NoResponse == Response(0, "", Absent, "", "")

\* raise HTTPException(status_code, detail): the body is {"detail": detail}
HTTPException(status_code, detail) == Response(status_code, "", Absent, "", detail)

\* the handler's return value: status is the literal "success" and data is
\* result.get("extracted_data", {})
SuccessResponse(result, output_excel) ==
    Response(200, "success",
             IF result.extracted_data.kind = "absent" THEN EmptyDict ELSE result.extracted_data,
             "/download/" \o output_excel, "")

\* an upload: the file's name and content, the output_excel parameter, and the
\* paths the handler derives
Request(filename, content, output_excel, file_path, output_path) ==
    [filename |-> filename, content |-> content, output_excel |-> output_excel,
     file_path |-> file_path, output_path |-> output_path]

NoRequest == Request([stem |-> "", suffix |-> ""], None, "", "", "")

\* ------------------------------------------------------ ExcelWriterAgent

\* a cell of a DataFrame that has no value, and a cell of a sheet that is empty
NaN == [kind |-> "nan", val |-> 0]

Blank == [kind |-> "blank", val |-> 0]

top_level_keys == <<"invoice_number", "date", "vendor_name", "total_amount">>

item_fields == <<"description", "quantity", "unit_price", "total_price">>

\* f'item_{i}_{field}'
ItemColumn(i, field) == "item_" \o ToString(i) \o "_" \o field

\* d.get(key) on a dict whose missing keys are Absent
dget(d, key) == IF d[key].kind = "absent" THEN None ELSE d[key]

\* the line items _flatten_data walks: data['line_items'] when it is a list
ItemsOf(data) == IF data.line_items.kind = "list" THEN data.line_items.val ELSE <<>>

\* the item columns in the order the loops add them, from item i on; an item
\* that is not a dict adds none and keeps its index
RECURSIVE ItemColumns(_, _)
ItemColumns(items, i) ==
    IF i > Len(items) THEN <<>>
    ELSE (IF items[i].kind = "dict"
          THEN [f \in 1..Len(item_fields) |-> ItemColumn(i, item_fields[f])]
          ELSE <<>>) \o ItemColumns(items, i + 1)

\* the value _flatten_data stores under a key
FlatValue(data, k) ==
    IF \E j \in 1..Len(top_level_keys) : top_level_keys[j] = k
    THEN dget(data, k)
    ELSE dget((CHOOSE it \in {ItemsOf(data)[i] : i \in 1..Len(ItemsOf(data))} :
                 \E i \in 1..Len(ItemsOf(data)), f \in 1..Len(item_fields) :
                    ItemsOf(data)[i] = it /\ ItemColumn(i, item_fields[f]) = k).val,
              CHOOSE fld \in {item_fields[f] : f \in 1..Len(item_fields)} :
                 \E i \in 1..Len(ItemsOf(data)) : ItemColumn(i, fld) = k)

\* _flatten_data(data): the keys in insertion order and the value of each
_flatten_data(data) ==
    [keys |-> top_level_keys \o ItemColumns(ItemsOf(data), 1),
     val |-> [k \in {(top_level_keys \o ItemColumns(ItemsOf(data), 1))[j] :
                        j \in 1..Len(top_level_keys \o ItemColumns(ItemsOf(data), 1))}
                |-> FlatValue(data, k)]]

\* pd.DataFrame([df_data]): one row, the columns in key order
DataFrame(df_data) == [columns |-> df_data.keys, rows |-> <<df_data.val>>]

\* the columns of pd.concat: those of the first frame, then the new ones of the
\* second
concat_columns(a, b) ==
    a.columns \o SelectSeq(b.columns, LAMBDA c : \A j \in 1..Len(a.columns) : a.columns[j] # c)

\* a row on the columns cols: a cell the row does not have is NaN
Reindexed(row, cols) ==
    [c \in {cols[j] : j \in 1..Len(cols)} |-> IF c \in DOMAIN row THEN row[c] ELSE NaN]

\* pd.concat([a, b], ignore_index=True)
concat(a, b) ==
    [columns |-> concat_columns(a, b),
     rows |-> [i \in 1..(Len(a.rows) + Len(b.rows)) |->
                 Reindexed(IF i <= Len(a.rows) THEN a.rows[i] ELSE b.rows[i - Len(a.rows)],
                           concat_columns(a, b))]]

\* df.to_excel(file_path, index=False): the header and one sheet row per frame
\* row; None and NaN are written as empty cells
to_excel(df) ==
    [columns |-> df.columns,
     rows |-> [i \in 1..Len(df.rows) |->
                 [c \in DOMAIN df.rows[i] |->
                    IF df.rows[i][c].kind \in {"none", "nan"} THEN Blank ELSE df.rows[i][c]]]]

\* texts that pd.read_excel reads as NaN under its defaults (keep_default_na):
\* the empty text, "N/A", "NA", "n/a", "null", "NULL", "NaN" and "nan", among
\* others
na_values ==
    {<<>>, <<"N", "/", "A">>, <<"N", "A">>, <<"n", "/", "a">>, <<"n", "u", "l", "l">>,
     <<"N", "U", "L", "L">>, <<"N", "a", "N">>, <<"n", "a", "n">>}

\* a cell as pd.read_excel gives it
read_cell(cell) ==
    IF cell.kind = "blank" THEN NaN
    ELSE IF cell.kind = "str" /\ cell.val \in na_values THEN NaN
    ELSE cell

\* pd.read_excel(file_path, engine='openpyxl')
read_excel(file) ==
    [columns |-> file.columns,
     rows |-> [i \in 1..Len(file.rows) |->
                 [c \in DOMAIN file.rows[i] |-> read_cell(file.rows[i][c])]]]

\* a path that os.path.exists does not find
NoFile == [exists |-> FALSE, columns |-> <<>>, rows |-> <<>>]

File(sheet) == [exists |-> TRUE, columns |-> sheet.columns, rows |-> sheet.rows]

\* _append_to_excel(file_path, data): the file it leaves at file_path
_append_to_excel(file, data) ==
    IF file.exists
    THEN File(to_excel(concat(read_excel(file), DataFrame(_flatten_data(data)))))
    ELSE File(to_excel(DataFrame(_flatten_data(data))))

\* the Context handed to ExcelWriterAgent.process: excel_sheet_path is not a
\* field of the dataclass, it is there only when the caller has set it
ExportContext(structured_data, excel_sheet_path) ==
    [structured_data |-> structured_data, excel_sheet_path |-> excel_sheet_path]

\* ExcelWriterAgent.process(context): the exception it raises, if any, before or
\* in the write
ExportRaises(context) ==
    IF ~Truthy(context.structured_data)
    THEN Exc("ValueError", "No structured data found in context")
    ELSE IF context.excel_sheet_path.kind = "absent"
    THEN Exc("AttributeError", "'Context' object has no attribute 'excel_sheet_path'")
    ELSE IF context.excel_sheet_path.kind # "path"
    THEN Exc("ValueError", "No Excel sheet path provided in context")
    ELSE NoExc

VARIABLES pc, fs, invoice_path, context, envelope, use_ocr, calls, attempts, provided,
          existed, vpc, vdata, vresult, hpc, request, response, dest, task, appended,
          sctx, slog

vars == <<pc, fs, invoice_path, context, envelope, use_ocr, calls, attempts, provided,
          existed, vpc, vdata, vresult, hpc, request, response, dest, task, appended,
          sctx, slog>>

wvars == <<pc, fs, invoice_path, context, envelope, use_ocr, calls, attempts, provided, existed>>

vvars == <<vpc, vdata, vresult>>

hvars == <<hpc, request, response>>

xvars == <<dest, task, appended>>

svars == <<sctx, slog>>

\* ------------------------------------------------------------ inputs

MaxItems == 2
MaxQuantity == 2
MaxCents == 7

Paths == {"uploads/a.pdf", "uploads/b.png"}

Invoice(n, d, v, t, l) ==
    [invoice_number |-> n, date |-> d, vendor_name |-> v, total_amount |-> t, line_items |-> l]

Item(d, q, u, t) ==
    Dict([description |-> d, quantity |-> q, unit_price |-> u, total_price |-> t])

Widget == Str(<<"W">>)
IsoDate == Str(<<"2", "0", "2", "4", "-", "0", "1", "-", "1", "5">>)
SlashDate == Str(<<"1", "5", "/", "0", "1", "/", "2", "0", "2", "4">>)
NoSuchDay == Str(<<"2", "0", "2", "4", "-", "0", "2", "-", "3", "0">>)

\* quantity 2, unit_price 3.00, total_price 6.00
GoodItem == Item(Widget, Num(200), Num(300), Num(600))

CoreItems ==
    {GoodItem,
     Item(Widget, Num(200), Num(300), Num(650)),
     Str(<<"x">>),
     Item(Absent, None, Num(300), Num(600)),
     Item(Widget, Str(<<"t", "w", "o">>), Num(300), Num(600)),
     Item(Widget, Num(0 - 100), Num(300), Num(600))}

\* line items whose description is empty, null or not there
DescriptionItems ==
    {Item(d, Num(200), Num(300), Num(600)) : d \in {Str(<<>>), None, Absent}}

NameVals == {Absent, None, Str(<<>>), Str(<<"A", "1">>)}
DateVals == {Absent, Str(<<>>), IsoDate, SlashDate, NoSuchDay, Num(20240115)}
VendorVals == {Absent, Str(<<>>), Str(<<"A", "c", "m", "e">>)}
TotalVals == {Absent, None, Num(0), Num(600), Num(0 - 5), Str(<<"a", "b", "c">>),
              Str(<<"1", "2", ".", "5", "0">>)}

SeqsUpTo(S, n) == UNION {[1..k -> S] : k \in 0..n}

LineItemVals ==
    {Absent, None, Str(<<"n", "/", "a">>)} \cup {List(l) : l \in SeqsUpTo(CoreItems, MaxItems)}

\* every header with every list of core items
StructuralInputs ==
    {Invoice(n, d, v, t, l) : n \in NameVals, d \in DateVals, v \in VendorVals,
                              t \in TotalVals, l \in LineItemVals}

\* a valid header with one line item of whole quantity and amounts in cents
NumericInputs ==
    {Invoice(Str(<<"A", "1">>), IsoDate, Str(<<"A", "c", "m", "e">>), Num(600),
             List(<<Item(Widget, Num(100 * q), Num(u), Num(t))>>)) :
        q \in (0 - 1)..MaxQuantity,
        u \in ((0 - 1)..MaxCents) \cup {300},
        t \in ((0 - 1)..(MaxQuantity * MaxCents + 2)) \cup {600, 650}}

GoodInvoice ==
    Invoice(Str(<<"A", "1">>), IsoDate, Str(<<"A", "c", "m", "e">>), Num(600), List(<<GoodItem>>))

\* a valid record whose first line item has no usable description
DescriptionInputs ==
    {[GoodInvoice EXCEPT !.line_items = List(<<it>> \o l)] :
        it \in DescriptionItems, l \in SeqsUpTo({GoodItem}, MaxItems - 1)}

Inputs == StructuralInputs \cup NumericInputs \cup DescriptionInputs

\* what get_structured_data() may give
Payloads ==
    {None, EmptyDict, Dict(GoodInvoice),
     Dict([GoodInvoice EXCEPT !.total_amount = Absent]),
     Dict([GoodInvoice EXCEPT !.date = SlashDate]),
     Dict([GoodInvoice EXCEPT !.date = Num(20240115)])}

ProviderOutcomes ==
    {[exc |-> e, job_id |-> None, status |-> None, structured_data |-> None] :
        e \in {"LlamaCloudError", "Exception"}}
    \cup {[exc |-> "", job_id |-> Str(<<"j", "1">>), status |-> Str(<<"S", "U", "C", "C", "E", "S", "S">>),
           structured_data |-> p] : p \in Payloads}

\* uploads: the file's name as Path(filename) splits it
Filenames ==
    {[stem |-> "inv", suffix |-> x] : x \in {".pdf", ".PNG", ".txt"}}

\* what an uploaded document says, as the provider would read it
Contents == {Dict(GoodInvoice), Dict([GoodInvoice EXCEPT !.total_amount = Absent])}

OutputNames == {"invoices.xlsx", "march.xlsx"}

UniqueIds == {"1f3a9c0e"}

\* at most this many invocations of ExcelWriterAgent.process are followed
MaxAppends == 3

\* the invocations of ExcelWriterAgent.process that may be in progress together
Tasks == {"t1", "t2"}

Path(p) == [kind |-> "path", val |-> p]

Destinations == {join(OUTPUT_DIR, "invoices.xlsx")}

\* context.excel_sheet_path: not set, None, or a destination
SheetPaths == {Absent, None} \cup {Path(d) : d \in Destinations}

\* records handed to export: A1 with one line item, A2 with two, one whose vendor
\* is printed as N/A, and no data
ExportData ==
    {None,
     Dict(GoodInvoice),
     Dict([GoodInvoice EXCEPT !.invoice_number = Str(<<"A", "2">>),
                              !.line_items = List(<<GoodInvoice.line_items.val[1],
                                                    Item(Widget, Num(100), Num(5), Num(5))>>)]),
     Dict([GoodInvoice EXCEPT !.invoice_number = Str(<<"A", "3">>),
                              !.vendor_name = Str(<<"N", "/", "A">>)])}

NoTask == [pc |-> "none", context |-> ExportContext(None, Absent), peers |-> {}, raised |-> NoExc]

\* at most this many validation attempts are followed on one context
MaxValidations == 3

\* what agent.extract gives: a failure, or success with data
ExtractResults ==
    {[success |-> FALSE, data |-> None]} \cup {[success |-> TRUE, data |-> d] : d \in Payloads}

\* what the LLM call and json.loads give: an exception, or the parsed JSON
LlmResults ==
    {[exc |-> "ValueError", data |-> None]} \cup {[exc |-> "", data |-> d] : d \in Payloads}

\* ------------------------------------------------------------- actions

\* an except clause that lets the run go on to validation
ExtractionFailedNever(r) == FALSE

\* except Exception around the extraction stage: the run ends there
ExtractionFailed(r) == r.raised # NoExc

\* who calls process_invoice(path): the handler that awaits it, with the path of
\* the upload it saved, or else a caller with a document of its own
Called(path) ==
    IF hpc = "awaiting" THEN path = request.file_path
    ELSE hpc = "idle" /\ path \in Paths

\* process_invoice without its os.path.exists check
StartUnchecked(path) ==
    /\ pc = "idle"
    /\ Called(path)
    /\ invoice_path' = path
    /\ existed' = (path \in fs)
    /\ calls' = <<>>
    /\ attempts' = <<>>
    /\ provided' = None
    /\ envelope' = NoEnvelope
    /\ context' = Context(path)
    /\ pc' = "extract"
    /\ UNCHANGED <<fs, use_ocr, vvars, hvars, xvars, svars>>

\* process_invoice up to the extraction stage: the existence check and the context
Start(path) ==
    /\ pc = "idle"
    /\ Called(path)
    /\ invoice_path' = path
    /\ existed' = (path \in fs)
    /\ calls' = <<>>
    /\ attempts' = <<>>
    /\ provided' = None
    /\ IF path \notin fs
       THEN /\ envelope' = FileNotFoundEnvelope(path)
            /\ context' = NoContext
            /\ pc' = "returned"
       ELSE /\ envelope' = NoEnvelope
            /\ context' = Context(path)
            /\ pc' = "extract"
    /\ UNCHANGED <<fs, use_ocr, vvars, hvars, xvars, svars>>

\* the extraction stage: extract_agent.process(context) and its except clause
Extract ==
    /\ pc = "extract"
    /\ \E std \in ProviderOutcomes, ocr \in ProviderOutcomes :
         \E r \in {process(context, invoice_path \in fs, std, ocr)} :
         /\ attempts' = r.attempts
         /\ provided' = r.result
         /\ use_ocr' = IF r.attempts = <<>> THEN use_ocr
                       ELSE IF r.attempts[Len(r.attempts)].use_ocr THEN "True" ELSE "False"
         /\ calls' = calls \o <<"extract", IF r.raised # NoExc THEN "extract:raise"
                                                 ELSE "extract:return">>
         /\ IF ExtractionFailed(r)
            THEN /\ envelope' = ExtractionErrorEnvelope(invoice_path, r.raised)
                 /\ context' = context
                 /\ pc' = "returned"
            ELSE /\ envelope' = envelope
                 /\ context' = r.context
                 /\ pc' = "validate"
    /\ UNCHANGED <<fs, invoice_path, existed, vvars, hvars, xvars, svars>>

\* the validation stage: validation_agent.process(context), the result dict and
\* the except clause
Validate ==
    /\ pc = "validate"
    /\ \E v \in {validation_process(context)} :
       /\ calls' = Append(calls, "validate")
       /\ context' = v.context
       /\ envelope' = IF v.raised # NoExc
                      THEN ValidationErrorEnvelope(invoice_path, v.raised, v.context)
                      ELSE ResultEnvelope(invoice_path, v.isValid, v.context)
       /\ pc' = "returned"
    /\ UNCHANGED <<fs, invoice_path, use_ocr, attempts, provided, existed, vvars, hvars, xvars, svars>>

\* the caller has the envelope and the workflow object serves the next request;
\* a handler that awaited it removes the upload and returns its response
Deliver ==
    /\ pc = "returned"
    /\ pc' = "idle"
    /\ invoice_path' = ""
    /\ context' = NoContext
    /\ envelope' = NoEnvelope
    /\ calls' = <<>>
    /\ attempts' = <<>>
    /\ provided' = None
    /\ existed' = FALSE
    /\ IF hpc = "awaiting"
       THEN /\ response' = SuccessResponse(envelope, request.output_excel)
            /\ hpc' = "responded"
            /\ request' = request
            /\ fs' = fs \ {request.file_path}
       ELSE UNCHANGED <<fs, hvars>>
    /\ UNCHANGED <<use_ocr, vvars, xvars, svars>>

\* POST /process-invoice/: the suffix check, the upload saved under a unique name,
\* the call of workflow.process_invoice(file_path, output_path), and the except
\* clause that removes the upload and raises HTTPException
PostProcessInvoice(filename, content, output_excel, unique_id) ==
    /\ pc = "idle"
    /\ hpc = "idle"
    /\ LET file_path == get_unique_filename(UPLOAD_DIR, filename, unique_id)
           output_path == join(OUTPUT_DIR, output_excel)
           e == Bind(process_invoice_params, <<file_path, output_path>>)
       IN  IF lower(filename.suffix) \notin allowed_extensions
           THEN /\ request' = Request(filename, content, output_excel, "", "")
                /\ response' = HTTPException(400, "File type not supported")
                /\ hpc' = "responded"
                /\ fs' = fs
           ELSE /\ request' = Request(filename, content, output_excel, file_path, output_path)
                /\ IF e # NoExc
                   THEN /\ response' = HTTPException(500, "Error processing invoice: " \o e.text)
                        /\ hpc' = "responded"
                        /\ fs' = fs \ {file_path}
                   ELSE /\ response' = NoResponse
                        /\ hpc' = "awaiting"
                        /\ fs' = fs \cup {file_path}
    /\ UNCHANGED <<pc, invoice_path, context, envelope, use_ocr, calls, attempts, provided,
                   existed, vvars, xvars, svars>>

\* the client has the response
Receive ==
    /\ hpc = "responded"
    /\ hpc' = "idle"
    /\ request' = NoRequest
    /\ response' = NoResponse
    /\ UNCHANGED <<wvars, vvars, xvars, svars>>

\* the file system changes under the run: a document is written or removed
FileChange(path) ==
    /\ fs' = IF path \in fs THEN fs \ {path} ELSE fs \cup {path}
    /\ UNCHANGED <<pc, invoice_path, context, envelope, use_ocr, calls, attempts, provided,
                   existed, vvars, hvars, xvars, svars>>

\* a caller creates the coroutine ExcelWriterAgent.process(context)
InvokeExport(t, structured_data, excel_sheet_path) ==
    /\ task[t].pc = "none"
    /\ Len(appended) + Cardinality({u \in Tasks : task[u].pc = "pending"}) < MaxAppends
    /\ task' = [task EXCEPT ![t] = [pc |-> "pending",
                                    context |-> ExportContext(structured_data, excel_sheet_path),
                                    peers |-> {}, raised |-> NoExc]]
    /\ UNCHANGED <<dest, appended, wvars, vvars, hvars, svars>>

\* the event loop runs ExcelWriterAgent.process(context) to its end: the two
\* checks, then _append_to_excel, which reads, concatenates and writes without a
\* suspension point in between
RunExport(t) ==
    /\ task[t].pc = "pending"
    /\ IF ExportRaises(task[t].context) # NoExc
       THEN /\ task' = [task EXCEPT ![t].pc = "raised",
                                    ![t].raised = ExportRaises(task[t].context)]
            /\ UNCHANGED <<dest, appended>>
       ELSE /\ dest' = [dest EXCEPT ![task[t].context.excel_sheet_path.val] =
                          _append_to_excel(@, task[t].context.structured_data.val)]
            /\ appended' = Append(appended,
                                  [destination |-> task[t].context.excel_sheet_path.val,
                                   data |-> task[t].context.structured_data,
                                   task |-> t])
            /\ task' = [task EXCEPT ![t].pc = "done",
                                    ![t].peers =
                                       {u \in Tasks \ {t} :
                                          /\ task[u].pc = "pending"
                                          /\ task[u].context.excel_sheet_path =
                                               task[t].context.excel_sheet_path}]
    /\ UNCHANGED <<wvars, vvars, hvars, svars>>

\* the caller has the context back, or the exception
CollectExport(t) ==
    /\ task[t].pc \in {"done", "raised"}
    /\ task' = [task EXCEPT ![t] = NoTask]
    /\ UNCHANGED <<dest, appended, wvars, vvars, hvars, svars>>

\* a caller makes a Context for a document
NewContext(path) ==
    /\ sctx = NoContext
    /\ sctx' = Context(path)
    /\ UNCHANGED <<slog, wvars, vvars, hvars, xvars>>

\* the context is handed to LlamaExtractAgent.process; when it raises the
\* context is as it was
StageLlamaExtract ==
    /\ sctx # NoContext
    /\ \E result \in ExtractResults :
         sctx' = llama_extract_process(sctx, sctx.invoice_path \in fs, result).context
    /\ UNCHANGED <<slog, wvars, vvars, hvars, xvars>>

\* the context is handed to DataExtractionAgent.process
StageDataExtraction ==
    /\ sctx # NoContext
    /\ \E llm \in LlmResults : sctx' = data_extraction_process(sctx, llm).context
    /\ UNCHANGED <<slog, wvars, vvars, hvars, xvars>>

\* the context is handed to DataValidationAgent.process: one validation attempt
StageValidate ==
    /\ sctx # NoContext
    /\ Len(slog) < MaxValidations
    /\ \E v \in {validation_process(sctx)} :
         /\ sctx' = v.context
         /\ slog' = Append(slog, [data |-> sctx.structured_data,
                                  raised |-> v.raised,
                                  isValid |-> v.isValid,
                                  feedback |-> v.context.validation_feedback])
    /\ UNCHANGED <<wvars, vvars, hvars, xvars>>

\* _validate_data applied to an input
RunValidate ==
    /\ vpc = "input"
    /\ vresult' = _validate_data(vdata)
    /\ vpc' = "done"
    /\ UNCHANGED <<vdata, wvars, hvars, xvars, svars>>

WorkflowInit ==
    /\ pc = "idle"
    /\ invoice_path = ""
    /\ context = NoContext
    /\ envelope = NoEnvelope
    /\ use_ocr = "unset"
    /\ calls = <<>>
    /\ attempts = <<>>
    /\ provided = None
    /\ existed = FALSE
    /\ hpc = "idle"
    /\ request = NoRequest
    /\ response = NoResponse

\* no export task and no destination
ExportIdle ==
    /\ dest = <<>>
    /\ task = <<>>
    /\ appended = <<>>

\* no context handed from stage to stage
StagesIdle ==
    /\ sctx = NoContext
    /\ slog = <<>>

Init ==
    /\ WorkflowInit
    /\ ExportIdle
    /\ StagesIdle
    /\ fs \in SUBSET Paths
    /\ vpc = "idle" /\ vdata = None /\ vresult = Return(TRUE, EmptyStr)

Next ==
    \/ \E path \in Paths \cup {request.file_path} : Start(path)
    \/ Extract
    \/ Validate
    \/ Deliver
    \/ \E path \in Paths : FileChange(path)
    \/ \E filename \in Filenames, content \in Contents, output_excel \in OutputNames,
          unique_id \in UniqueIds :
          PostProcessInvoice(filename, content, output_excel, unique_id)
    \/ Receive

Spec == Init /\ [][Next]_vars

ValidateInit ==
    /\ WorkflowInit
    /\ ExportIdle
    /\ StagesIdle
    /\ fs = {}
    /\ vpc = "input" /\ vdata \in Inputs /\ vresult = Return(TRUE, EmptyStr)

ValidateNext == RunValidate

ValidateSpec == ValidateInit /\ [][ValidateNext]_vars

ExportInit ==
    /\ WorkflowInit
    /\ StagesIdle
    /\ fs = {}
    /\ vpc = "idle" /\ vdata = None /\ vresult = Return(TRUE, EmptyStr)
    /\ dest = [d \in Destinations |-> NoFile]
    /\ task = [t \in Tasks |-> NoTask]
    /\ appended = <<>>

ExportNext ==
    \/ \E t \in Tasks, structured_data \in ExportData, excel_sheet_path \in SheetPaths :
          InvokeExport(t, structured_data, excel_sheet_path)
    \/ \E t \in Tasks : RunExport(t)
    \/ \E t \in Tasks : CollectExport(t)

ExportSpec == ExportInit /\ [][ExportNext]_vars

StagesInit ==
    /\ WorkflowInit
    /\ ExportIdle
    /\ StagesIdle
    /\ fs = {"uploads/a.pdf"}
    /\ vpc = "idle" /\ vdata = None /\ vresult = Return(TRUE, EmptyStr)

StagesNext ==
    \/ \E path \in Paths : NewContext(path)
    \/ StageLlamaExtract
    \/ StageDataExtraction
    \/ StageValidate

StagesSpec == StagesInit /\ [][StagesNext]_vars

\* ------------------------------------------------------------- claims

Range(f) == {f[i] : i \in DOMAIN f}

NonEmptyStr(v) == v.kind = "str" /\ Len(v.val) > 0

\* a line item of the InvoiceRecord shape: description, positive quantity,
\* non-negative prices, and round(quantity * unit_price, 2) within 0.01 (one
\* cent) of total_price
ShapeItem(it) ==
    /\ it.kind = "dict"
    /\ NonEmptyStr(it.val.description)
    /\ float(it.val.quantity).err = "" /\ float(it.val.quantity).val > 0
    /\ float(it.val.unit_price).err = "" /\ float(it.val.unit_price).val >= 0
    /\ float(it.val.total_price).err = "" /\ float(it.val.total_price).val >= 0
    /\ Abs(round2(float(it.val.quantity).val * float(it.val.unit_price).val)
           - float(it.val.total_price).val) <= 1

\* the InvoiceRecord shape
InvoiceRecordShape(d) ==
    /\ NonEmptyStr(d.invoice_number)
    /\ d.date.kind = "str" /\ strptime_ok(d.date.val)
    /\ NonEmptyStr(d.vendor_name)
    /\ float(d.total_amount).err = "" /\ float(d.total_amount).val > 0
    /\ d.line_items.kind = "list"
    /\ Len(d.line_items.val) > 0
    /\ \A i \in 1..Len(d.line_items.val) : ShapeItem(d.line_items.val[i])

\* the structured data the extraction stage was given by the provider
ProvidedData == provided.val.structured_data

CountOf(seq, x) == Cardinality({i \in 1..Len(seq) : seq[i] = x})

\* C1: when the document exists and the provider returned complete, valid fields
\* F, the envelope has status "success", no validation feedback, and
\* extracted_data = F.
C1_SuccessEnvelope ==
    (/\ pc = "returned"
     /\ provided # None
     /\ ProvidedData.kind = "dict"
     /\ InvoiceRecordShape(ProvidedData.val))
    => /\ envelope.status = "success"
       /\ envelope.validation_feedback \in {List(<<>>), None}
       /\ envelope.extracted_data = ProvidedData

\* C2: when the provider's fields fail a validation rule, the envelope has status
\* "warning", carries those fields and the feedback naming the violation, and
\* the extraction stage ran once only.
C2_WarningEnvelope ==
    (/\ pc = "returned"
     /\ provided # None
     /\ Truthy(ProvidedData)
     /\ _validate_data(ProvidedData.val).raised = ""
     /\ ~_validate_data(ProvidedData.val).isValid)
    => /\ envelope.status = "warning"
       /\ envelope.extracted_data = ProvidedData
       /\ envelope.validation_feedback = Feedback(_validate_data(ProvidedData.val).feedback)
       /\ CountOf(calls, "extract") = 1

\* C3: a run on a path that does not exist returns at once the error envelope
\* with details.file_exists = false, and no stage and no provider call is made
\* in that run.
C3_MissingFileFailsFast ==
    (pc # "idle" /\ ~existed)
    => /\ pc = "returned"
       /\ envelope.status = "error"
       /\ envelope.details = [key |-> "file_exists", value |-> FALSE]
       /\ envelope.invoice_path = invoice_path
       /\ calls = <<>>
       /\ attempts = <<>>

C3_MissingFileReached ==
    pc = "returned" /\ ~existed /\ envelope.status = "error" /\ invoice_path \notin fs

\* C4: a run whose extraction stage raised ends in the error envelope tagged
\* extraction_error with validation and export never invoked, and validation is
\* invoked only after extraction has returned.
C4_ExtractionFailureHalts ==
    /\ "extract:raise" \in Range(calls)
       => /\ pc = "returned"
          /\ envelope.status = "error"
          /\ envelope.details = [key |-> "extraction_error", value |-> TRUE]
          /\ "validate" \notin Range(calls)
          /\ "export" \notin Range(calls)
    /\ pc = "validate" => calls[Len(calls)] = "extract:return"
    /\ \A i \in 1..Len(calls) :
         calls[i] = "validate" => \E j \in 1..(i - 1) : calls[j] = "extract:return"

C4_ExtractionFailureReached ==
    /\ pc = "returned"
    /\ "extract:raise" \in Range(calls)
    /\ Len(attempts) = 1
    /\ attempts[1].outcome.exc = "LlamaCloudError"

\* C5: when the standard attempt returns an empty or unusable payload the stage
\* makes exactly one more attempt, in OCR mode, and succeeds with that attempt's
\* data or raises; the provider is called at most twice and an empty payload is
\* never kept as a success.
C5_FallbackOnEmpty ==
    /\ Len(attempts) <= 2
    /\ (/\ pc \in {"validate", "returned"}
        /\ Len(attempts) >= 1
        /\ attempts[1].outcome.exc = ""
        /\ ~Truthy(attempts[1].outcome.structured_data))
       => /\ Len(attempts) = 2
          /\ attempts[2].use_ocr
          /\ IF attempts[2].outcome.exc = "" /\ Truthy(attempts[2].outcome.structured_data)
             THEN /\ "extract:return" \in Range(calls)
                  /\ ProvidedData = attempts[2].outcome.structured_data
             ELSE "extract:raise" \in Range(calls)
    /\ "extract:return" \in Range(calls) => Truthy(ProvidedData)

\* the rules an input violates: missing required fields, the date, the total
\* amount, and each line item by its index
Violation(rule, item) == [rule |-> rule, item |-> item]

Violations(d) ==
    (IF \E k \in Range(required_fields) : d[k].kind \in {"absent", "none"}
     THEN {Violation("missing", 0)} ELSE {})
    \cup (IF Truthy(d.date) /\ ~(d.date.kind = "str" /\ strptime_ok(d.date.val))
          THEN {Violation("date", 0)} ELSE {})
    \cup (IF d.total_amount.kind \notin {"absent", "none"}
             /\ (float(d.total_amount).err # "" \/ float(d.total_amount).val <= 0)
          THEN {Violation("total", 0)} ELSE {})
    \cup (IF d.line_items.kind = "list"
          THEN {Violation("item", i) : i \in {j \in 1..Len(d.line_items.val) :
                                               ~ItemCheck(d.line_items.val[j], j).isValid}}
          ELSE {})

Rank(v) ==
    CASE v.rule = "missing" -> 1
      [] v.rule = "date" -> 2
      [] v.rule = "total" -> 3
      [] v.rule = "item" -> 3 + v.item

\* the rule a feedback message is about
RuleOf(m) ==
    CASE m.rule = "Missing required fields:" -> "missing"
      [] m.rule = "Invalid date format. Expected YYYY-MM-DD, got" -> "date"
      [] m.rule \in {"Invalid total amount:", "Total amount must be greater than 0"} -> "total"
      [] m.item > 0 -> "item"
      [] OTHER -> ""

\* the entries of a feedback string: none when it is empty, else the one message
Entries(fb) == IF fb = EmptyStr THEN {} ELSE {Violation(RuleOf(fb), fb.item)}

MissingKeys(d) == {k \in Range(required_fields) : d[k].kind \in {"absent", "none"}}

\* C7: when required top-level keys are absent or null the feedback is one
\* message about missing fields that names all the missing keys and no key that
\* is present.
C7_MissingFieldsNamedTogether ==
    (vpc = "done" /\ MissingKeys(vdata) # {})
    => /\ vresult.raised = ""
       /\ ~vresult.isValid
       /\ vresult.feedback.rule = "Missing required fields:"
       /\ Range(vresult.feedback.names) = MissingKeys(vdata)
       /\ Len(vresult.feedback.names) = Cardinality(MissingKeys(vdata))

C7_TwoMissingReached ==
    /\ vpc = "done"
    /\ vdata.date = Absent
    /\ vdata.total_amount = None
    /\ MissingKeys(vdata) = {"date", "total_amount"}
    /\ vresult.feedback.names = <<"date", "total_amount">>

\* C8: a record of the InvoiceRecord shape (all five keys present and valid,
\* every line item consistent) is accepted with empty feedback, and for every
\* input isValid is true exactly when the feedback is empty.
C8_ValidRecordsAccepted ==
    vpc = "done"
    => /\ InvoiceRecordShape(vdata) => vresult = Return(TRUE, EmptyStr)
       /\ vresult.raised = "" => (vresult.isValid <=> vresult.feedback = EmptyStr)

\* C9: only records of the InvoiceRecord shape are accepted.
C9_AcceptsOnlyInvoiceRecords ==
    (vpc = "done" /\ vresult.raised = "" /\ vresult.isValid)
    => InvoiceRecordShape(vdata)

\* C10: a line item with positive quantity and non-negative prices is accepted
\* exactly when round(quantity * unit_price, 2) is within 0.01 (one cent) of
\* total_price, and otherwise the mismatch is reported for its index with the
\* computed and the stated total.
C10_ToleranceDecides ==
    (/\ vpc = "done"
     /\ [vdata EXCEPT !.line_items = GoodInvoice.line_items] = GoodInvoice
     /\ vdata.line_items.kind = "list"
     /\ Len(vdata.line_items.val) = 1
     /\ vdata.line_items.val[1].kind = "dict"
     /\ \A f \in {"quantity", "unit_price", "total_price"} :
          vdata.line_items.val[1].val[f].kind = "num"
     /\ NonEmptyStr(vdata.line_items.val[1].val.description)
     /\ vdata.line_items.val[1].val.quantity.val > 0
     /\ vdata.line_items.val[1].val.unit_price.val >= 0
     /\ vdata.line_items.val[1].val.total_price.val >= 0)
    => vresult =
         IF Abs(round2(vdata.line_items.val[1].val.quantity.val
                       * vdata.line_items.val[1].val.unit_price.val)
                - vdata.line_items.val[1].val.total_price.val) <= 1
         THEN Return(TRUE, EmptyStr)
         ELSE Return(FALSE,
                     Msg("Line item: quantity * unit_price does not match total_price", 1, <<>>,
                         <<Num(round2(vdata.line_items.val[1].val.quantity.val
                                      * vdata.line_items.val[1].val.unit_price.val)),
                           vdata.line_items.val[1].val.total_price>>))

\* the successful appends recorded for one destination
AppendsTo(destination) == SelectSeq(appended, LAMBDA a : a.destination = destination)

\* C11: when an export destination is configured and the document's fields pass
\* validation, the export stage is invoked exactly once, after validation and
\* before the caller has the result; export is never invoked in a run whose
\* extraction or validation failed.
C11_ExportOnceWhenValid ==
    /\ (/\ hpc = "responded"
        /\ request.output_path # ""
        /\ InvoiceRecordShape(request.content.val))
       => /\ Len(AppendsTo(request.output_path)) = 1
          /\ AppendsTo(request.output_path)[1].data = request.content
    /\ (pc = "returned" /\ envelope.status # "success") => "export" \notin Range(calls)
    /\ \A i \in 1..Len(calls) :
         calls[i] = "export" => \E j \in 1..(i - 1) : calls[j] = "validate"

\* the terminal state of a run that has returned, from what its stages did
TerminalState ==
    IF ~existed THEN "file_missing"
    ELSE IF "extract:raise" \in Range(calls) THEN "extraction_failed"
    ELSE IF "validate" \notin Range(calls) THEN "unexpected_failure"
    ELSE IF context.validation_feedback.kind = "none" THEN "valid"
    ELSE IF context.validation_feedback.kind = "feedback" THEN "invalid"
    ELSE "validation_raised"

\* the shape of an envelope: its status, its details key and the keys it carries
ShapeOf(e) ==
    [status |-> e.status, details |-> e.details.key,
     has_error |-> e.error # NoExc,
     has_details |-> e.details # NoDetails,
     has_message |-> e.message # "",
     has_extracted_data |-> e.extracted_data.kind # "absent",
     has_validation_feedback |-> e.validation_feedback.kind # "absent"]

\* the one shape of each terminal state
ShapeFor(t) ==
    CASE t = "file_missing" ->
           [status |-> "error", details |-> "file_exists", has_error |-> TRUE,
            has_details |-> TRUE, has_message |-> FALSE, has_extracted_data |-> FALSE,
            has_validation_feedback |-> FALSE]
      [] t = "extraction_failed" ->
           [status |-> "error", details |-> "extraction_error", has_error |-> TRUE,
            has_details |-> TRUE, has_message |-> FALSE, has_extracted_data |-> FALSE,
            has_validation_feedback |-> FALSE]
      [] t = "validation_raised" ->
           [status |-> "error", details |-> "validation_error", has_error |-> TRUE,
            has_details |-> TRUE, has_message |-> FALSE, has_extracted_data |-> TRUE,
            has_validation_feedback |-> FALSE]
      [] t = "unexpected_failure" ->
           [status |-> "error", details |-> "unexpected_error", has_error |-> TRUE,
            has_details |-> TRUE, has_message |-> FALSE, has_extracted_data |-> FALSE,
            has_validation_feedback |-> FALSE]
      [] t = "valid" ->
           [status |-> "success", details |-> "", has_error |-> FALSE,
            has_details |-> FALSE, has_message |-> TRUE, has_extracted_data |-> TRUE,
            has_validation_feedback |-> TRUE]
      [] t = "invalid" ->
           [status |-> "warning", details |-> "", has_error |-> FALSE,
            has_details |-> FALSE, has_message |-> TRUE, has_extracted_data |-> TRUE,
            has_validation_feedback |-> TRUE]

\* C14: every run of process_invoice ends with an envelope returned, never an
\* exception: status is "success", "warning" or "error", invoice_path is the
\* input path, error and details are present exactly when status is "error",
\* and the envelope has the one shape of the run's terminal state.
C14_WellFormedEnvelope ==
    /\ pc \in {"idle", "extract", "validate", "returned"}
    /\ pc # "returned" => envelope = NoEnvelope
    /\ pc = "returned"
       => /\ envelope.status \in {"success", "warning", "error"}
          /\ envelope.invoice_path = invoice_path
          /\ (envelope.error # NoExc) <=> (envelope.status = "error")
          /\ (envelope.details # NoDetails) <=> (envelope.status = "error")
          /\ ShapeOf(envelope) = ShapeFor(TerminalState)

C14_ValidationRaisedReached ==
    /\ pc = "returned"
    /\ TerminalState = "validation_raised"
    /\ envelope.error.type = "ValueError"
    /\ envelope.details = [key |-> "validation_error", value |-> TRUE]

\* C16: when LlamaParseAgent.process has returned, the context holds the
\* structured data, the job id and the status the provider call produced; until
\* then those fields are not set.
C16_ContextHoldsProviderData ==
    /\ pc = "validate"
       => /\ context.structured_data = ProvidedData
          /\ context.job_id = provided.val.job_id
          /\ context.job_status = provided.val.status
    /\ pc = "extract"
       => /\ context.structured_data = None
          /\ context.job_id = None
          /\ context.job_status = Absent

\* C17: the client of POST /process-invoice/ always receives a well-formed
\* envelope and no exception text: its status is "success" only for a document
\* whose envelope is a success, "warning" for a validation failure and "error"
\* for a fatal failure.
C17_ResponseEnvelope ==
    /\ (hpc = "responded" /\ request.file_path # "")
       => /\ response.status \in {"success", "warning", "error"}
          /\ response.detail = ""
          /\ response.status = "success" => InvoiceRecordShape(request.content.val)
    /\ (hpc = "awaiting" /\ pc = "returned")
       => /\ ENABLED Deliver
          /\ envelope.status \in {"success", "warning", "error"}

\* a value as a sheet cell holds it: None is an empty cell
CellOf(v) == IF v.kind = "none" THEN Blank ELSE v

\* row i of a file is the flattened record flat: each key's cell holds its value
\* and every other column of the sheet is empty in that row
RowHolds(file, i, flat) ==
    /\ i <= Len(file.rows)
    /\ \A k \in DOMAIN flat.val : k \in DOMAIN file.rows[i] /\ file.rows[i][k] = CellOf(flat.val[k])
    /\ \A c \in DOMAIN file.rows[i] : c \notin DOMAIN flat.val => file.rows[i][c] = Blank

\* C12: after successful appends r1..rn to a destination that started absent the
\* destination holds exactly n rows and row i is the flattened form of ri, so an
\* append adds its row and leaves the earlier rows as they were; the first append
\* creates the destination with its record as the only row.
C12_AppendsKeepRows ==
    \A d \in DOMAIN dest :
        IF AppendsTo(d) = <<>> THEN ~dest[d].exists
        ELSE /\ dest[d].exists
             /\ Len(dest[d].rows) = Len(AppendsTo(d))
             /\ \A i \in 1..Len(AppendsTo(d)) :
                  RowHolds(dest[d], i, _flatten_data(AppendsTo(d)[i].data.val))

\* C13: when two invocations were in progress together on one destination and
\* both appends have completed, the destination holds both new records and
\* every row it held before them.
C13_ConcurrentAppendsKept ==
    \A t \in DOMAIN task : \A u \in DOMAIN task :
        (/\ task[t].pc = "done" /\ task[u].pc = "done"
         /\ u \in task[t].peers)
        => \E d \in {task[t].context.excel_sheet_path.val} :
             \E it \in 1..Len(AppendsTo(d)) : \E iu \in 1..Len(AppendsTo(d)) :
                /\ AppendsTo(d)[it].task = t /\ AppendsTo(d)[iu].task = u
                /\ it < iu /\ iu = Len(AppendsTo(d))
                /\ Len(dest[d].rows) = Len(AppendsTo(d))
                /\ \A i \in 1..Len(AppendsTo(d)) :
                     RowHolds(dest[d], i, _flatten_data(AppendsTo(d)[i].data.val))

\* the most recent validation attempt on the context
LastAttempt == slog[Len(slog)]

\* C15: validation_feedback reflects only the most recent validation attempt on
\* the context: a message it holds is the one that attempt produced, never one
\* of an earlier attempt, and right after an attempt it is empty if the attempt
\* passed and that attempt's feedback if it failed.
C15_FeedbackOfLastAttemptOnly ==
    /\ sctx.validation_feedback.kind = "feedback"
       => /\ slog # <<>>
          /\ LastAttempt.raised = NoExc
          /\ ~LastAttempt.isValid
          /\ sctx.validation_feedback = LastAttempt.feedback
          /\ sctx.validation_feedback =
               Feedback(_validate_data(LastAttempt.data.val).feedback)
    /\ (slog # <<>> /\ LastAttempt.raised = NoExc /\ LastAttempt.isValid
        /\ sctx.structured_data = LastAttempt.data)
       => sctx.validation_feedback = None
====
